---- MODULE Spec2Model ----
(***************************************************************************)
(* Model of video_downloader.py: main() submits one download_video call    *)
(* per URL to a ThreadPoolExecutor of args.threads workers, collects the   *)
(* futures with as_completed, and a display_progress thread reads the      *)
(* DownloadProgress records the workers write.                             *)
(*                                                                         *)
(* Every attribute write of download_video is one step, so the states in   *)
(* between two writes of a worker are states of the model.                 *)
(***************************************************************************)
EXTENDS Integers, Sequences, FiniteSets, TLC

\* ------------------------------------------------------------------ bounds
MaxTasks == 2        \* at most this many URLs on the command line
MaxThreads == 2      \* --threads is drawn from 1..MaxThreads
MaxLines == 2        \* output lines read over the whole run

URLS == {"u1", "u2"}
ExitCodes == {0, 1}

\* ------------------------------------------------- output lines (tokens)
\* A line is a sequence of tokens; a token is a sequence of characters
\* (words are kept whole).  The regular expressions of download_video are
\* searched over the tokens.
Digits == {"0", "1", "2", "3", "4", "5", "6", "7", "8", "9"}

T(w) == <<w>>

\* "[download]  45.2% of 120.00MiB at 3.50MiB/s ETA 00:30"
LineProgress ==
    << T("[download]"), <<"4", "5", ".", "2", "%">>, T("of"), T("120.00MiB"),
       T("at"), T("3.50MiB/s"), T("ETA"), T("00:30") >>
\* "[download] 100%"
LineComplete == << T("[download]"), <<"1", "0", "0", "%">> >>
\* "[download] Destination: a.mp4"
LineDestination == << T("[download]"), T("Destination:"), T("a.mp4") >>
\* "[download] 1.2.3% of 120.00MiB"  (garbled number behind the marker)
LineGarbled ==
    << T("[download]"), <<"1", ".", "2", ".", "3", "%">>, T("of"), T("120.00MiB") >>
\* "7.00MiB at 3.50MiB/s ETA 00:30"  (tokens, but no percentage marker)
LineNoPercent ==
    << T("7.00MiB"), T("at"), T("3.50MiB/s"), T("ETA"), T("00:30") >>
\* "[info] Downloading 1 format(s)"
LineNoise == << T("[info]"), T("Downloading") >>

\* the lines a process of the runs can emit
Lines == << LineProgress, LineComplete, LineDestination, LineGarbled,
            LineNoPercent, LineNoise >>

Amounts == {"120.00MiB", "7.00MiB"}      \* [\d.]+\s*[KMGT]?iB
Rates == {"3.50MiB/s"}                   \* [\d.]+\s*[KMGT]?iB/s
Times == {"00:30", "00:05"}              \* [\d:]+

IsWord(tok, w) == tok = <<w>>
IsAmount(tok) == Len(tok) = 1 /\ tok[1] \in Amounts
IsRate(tok) == Len(tok) = 1 /\ tok[1] \in Rates
IsTime(tok) == Len(tok) = 1 /\ tok[1] \in Times

\* ([\d.]+)% : one or more digits or dots, then a percent sign
IsPercentToken(tok) ==
    /\ Len(tok) >= 2
    /\ tok[Len(tok)] = "%"
    /\ \A k \in 1..(Len(tok) - 1) : tok[k] \in Digits \cup {"."}

IsHundred(tok) == tok = <<"1", "0", "0", "%">>

\* one element of a pattern: a class of tokens, or else a literal word
Is(tok, what) ==
    CASE what = "percent" -> IsPercentToken(tok)
      [] what = "100%" -> IsHundred(tok)
      [] what = "amount" -> IsAmount(tok)
      [] what = "rate" -> IsRate(tok)
      [] what = "time" -> IsTime(tok)
      [] what = "any" -> TRUE
      [] OTHER -> IsWord(tok, what)

\* re.search over the tokens: the first position p with line[p] matching
\* `first` and line[p + 1] matching `second`; 0 when there is none (None)
Search(line, first, second) ==
    LET found == {p \in 1..(Len(line) - 1) : Is(line[p], first) /\ Is(line[p + 1], second)}
    IN  IF found = {} THEN 0 ELSE CHOOSE p \in found : \A q \in found : p <= q

percentage_pattern(line) == Search(line, "[download]", "percent")
speed_pattern(line) == Search(line, "at", "rate")
eta_pattern(line) == Search(line, "ETA", "time")
size_pattern(line) == Search(line, "of", "amount")
downloaded_pattern(line) == Search(line, "amount", "at")
filename_pattern(line) == Search(line, "Destination:", "any")
complete_pattern(line) == Search(line, "[download]", "100%")

\* ------------------------------------------------------------- float(text)
DigitVal(c) ==
    CASE c = "0" -> 0 [] c = "1" -> 1 [] c = "2" -> 2 [] c = "3" -> 3
      [] c = "4" -> 4 [] c = "5" -> 5 [] c = "6" -> 6 [] c = "7" -> 7
      [] c = "8" -> 8 [] c = "9" -> 9

RECURSIVE DigitsValue(_)
DigitsValue(ds) ==
    IF ds = <<>> THEN 0
    ELSE 10 * DigitsValue(SubSeq(ds, 1, Len(ds) - 1)) + DigitVal(ds[Len(ds)])

NumberText(tok) == SubSeq(tok, 1, Len(tok) - 1)      \* group(1): without "%"
Dots(txt) == {k \in 1..Len(txt) : txt[k] = "."}

\* float() accepts digits with at most one dot and at least one digit, and
\* raises ValueError on anything else
FloatRaises(txt) == Cardinality(Dots(txt)) > 1 \/ Cardinality(Dots(txt)) = Len(txt)

\* the value of float(txt) in tenths of a percent point (45.2 is 452)
FloatTenths(txt) ==
    IF Dots(txt) = {} THEN 10 * DigitsValue(txt)
    ELSE LET d == CHOOSE k \in Dots(txt) : TRUE
             frac == SubSeq(txt, d + 1, Len(txt))
         IN  10 * DigitsValue(SubSeq(txt, 1, d - 1))
               + (IF frac = <<>> THEN 0 ELSE DigitVal(frac[1]))

\* ------------------------------------------------------------------- state
VARIABLES
    urls,          \* the input URL list (args.urls)
    threads,       \* args.threads, max_workers of the pool
    submitted,     \* number of executor.submit calls made so far
    pc,            \* per task: where its download_video call stands
    ops,           \* per task: attribute writes still to do for the current line
    proc,          \* per task: its external process: "none", "live", "exited"
    returncode,    \* per task: exit code of its process (NoCode until it exits)
    trackers,      \* progress_trackers: one DownloadProgress per task
    retval,        \* per task: what its future holds
    collected,     \* futures as_completed has already yielded
    results,       \* main's results list
    stop_event,    \* threading.Event shared with display_progress
    mainPc,        \* main: "check", "setup", "pool", "interrupted", "join",
                   \*       "done" (returned), "exit1" (sys.exit(1))
    rendPc,        \* display_progress: "none" (no thread yet), "loop", "done"
    nread,         \* output lines read so far, over all tasks
    checked,       \* the results of the check_yt_dlp_installed calls so far
    launches,      \* per task: number of subprocess.Popen calls made for it
    shown,         \* what print_progress_final has drawn
    unit           \* one download_video call followed line by line (SpecUnits)

vars == << urls, threads, submitted, pc, ops, proc, returncode, trackers,
           retval, collected, results, stop_event, mainPc, rendPc, nread,
           checked, launches, shown, unit >>

Tasks == 1..Len(urls)
NoCode == -1

\* ---------------------------------------------------------------- messages
\* A message is kept as its parts: the fixed text, the URL, the exit code and
\* the exception text that the f-string puts together.
Msg(tag, url, code, exc) == [tag |-> tag, url |-> url, code |-> code, exc |-> exc]
None == Msg("None", "", NoCode, "")
ExitMsg(url, code) == Msg("FAILED: yt-dlp returned code", url, code, "")
ExceptionMsg(url, exc) == Msg("Exception for", url, NoCode, exc)
GeneratedMsg(url, exc) == Msg("generated exception", url, NoCode, exc)
CompletedMsg == Msg("Download completed", "", NoCode, "")

\* ------------------------------------------------------- DownloadProgress
DownloadProgress(url, index, total) ==
    [ url |-> url, index |-> index, total |-> total,
      percentage |-> 0, speed |-> "0B/s", eta |-> "00:00", size |-> "Unknown",
      downloaded |-> "0B", filename |-> "Unknown",
      completed |-> FALSE, error |-> None ]

\* one attribute write
Op(f, s, n) == [f |-> f, s |-> s, n |-> n]

\* DownloadProgress.set_completed, write by write
set_completed == << Op("completed", "", 0), Op("percentage", "", 1000),
                    Op("downloaded=size", "", 0) >>

Write(t, o) ==
    CASE o.f = "filename" -> [t EXCEPT !.filename = o.s]
      [] o.f = "percentage" -> [t EXCEPT !.percentage = o.n]
      [] o.f = "size" -> [t EXCEPT !.size = o.s]
      [] o.f = "speed" -> [t EXCEPT !.speed = o.s]
      [] o.f = "eta" -> [t EXCEPT !.eta = o.s]
      [] o.f = "downloaded" -> [t EXCEPT !.downloaded = o.s]
      [] o.f = "completed" -> [t EXCEPT !.completed = TRUE]
      [] o.f = "downloaded=size" -> [t EXCEPT !.downloaded = t.size]

\* the writes the body of "for line in process.stdout" does for one line, in
\* program order; Op("raise", ..) is float() raising ValueError, after which
\* nothing more of the loop runs
Group(line, p) == line[p + 1][1]
IfMatch(p, o) == IF p = 0 THEN <<>> ELSE <<o>>

PercentageOps(line) ==
    LET p == percentage_pattern(line) IN
    IF p = 0 THEN <<>>
    ELSE IF FloatRaises(NumberText(line[p + 1])) THEN << Op("raise", "ValueError", 0) >>
    ELSE << Op("percentage", "", FloatTenths(NumberText(line[p + 1]))) >>
         \o IfMatch(size_pattern(line), Op("size", Group(line, size_pattern(line)), 0))
         \o IfMatch(speed_pattern(line), Op("speed", Group(line, speed_pattern(line)), 0))
         \o IfMatch(eta_pattern(line), Op("eta", Group(line, eta_pattern(line)), 0))
         \o IfMatch(downloaded_pattern(line),
                    Op("downloaded", line[downloaded_pattern(line)][1], 0))

Raises(os) == \E k \in 1..Len(os) : os[k].f = "raise"

LineOps(line) ==
    LET first == IfMatch(filename_pattern(line),
                         Op("filename", Group(line, filename_pattern(line)), 0))
                 \o PercentageOps(line)
    IN  IF Raises(first) \/ complete_pattern(line) = 0 THEN first
        ELSE first \o set_completed

\* ------------------------------------------------------------------- Init
\* what print_progress_final has printed: nothing, before it runs
NothingShown == [drawn |-> FALSE, successful |-> 0, failed |-> 0, status |-> <<>>]

\* the URL lists of the runs: the first URL is named "u1" (the names carry no
\* meaning, only which entries are equal does)
UrlLists == {us \in UNION {[1..n -> URLS] : n \in 1..MaxTasks} : us[1] = "u1"}

\* no download_video call is being followed
NoUnit ==
    [ phase |-> "none", platform |-> "", url |-> <<>>, quality |-> "",
      extract_audio |-> FALSE, command |-> <<>>, received |-> <<>>,
      shell |-> FALSE, merged |-> FALSE,
      rec |-> DownloadProgress("", 0, 0), before |-> DownloadProgress("", 0, 0),
      line |-> 0, applied |-> 0 ]

\* the state when main is entered and the arguments are parsed: no URL list is
\* read, no record exists, no thread is started, no future is submitted
Init ==
    /\ urls = <<>>
    /\ threads \in 1..MaxThreads
    /\ submitted = 0
    /\ pc = <<>>
    /\ ops = <<>>
    /\ proc = <<>>
    /\ returncode = <<>>
    /\ trackers = <<>>
    /\ retval = <<>>
    /\ collected = {}
    /\ results = <<>>
    /\ stop_event = FALSE
    /\ mainPc = "check"
    /\ rendPc = "none"
    /\ nread = 0
    /\ checked = <<>>
    /\ launches = <<>>
    /\ shown = NothingShown
    /\ unit = NoUnit

\* ---------------------------------------------------------- download_video
ExceptionClasses == {"OSError", "UnicodeDecodeError", "ValueError"}

\* an except clause naming only the errors of starting a process
CatchesLaunchErrorsOnly(e) == e = "OSError"

\* "except Exception as e": every exception class that can arise here derives
\* from Exception
Catches(e) == e \in ExceptionClasses

\* a return that puts a task that failed back on the queue until it has been
\* launched --retries (2) more times
ReturnOrRetry(i, ok, msg) ==
    /\ pc' = [pc EXCEPT ![i] = IF ~ok /\ launches[i] <= 2 THEN "queued" ELSE "returned"]
    /\ retval' = [retval EXCEPT ![i] =
                    [raised |-> FALSE, url |-> urls[i], ok |-> ok, msg |-> msg]]

\* return (url, ok, msg): the future of task i gets its result
Return(i, ok, msg) ==
    /\ pc' = [pc EXCEPT ![i] = "returned"]
    /\ retval' = [retval EXCEPT ![i] =
                    [raised |-> FALSE, url |-> urls[i], ok |-> ok, msg |-> msg]]

\* set_error on every record with the task's URL, as main's handler does
SetErrorOfUrl(i, msg) ==
    [j \in Tasks |-> IF trackers[j].url = urls[i]
                     THEN [trackers[j] EXCEPT !.error = msg]
                     ELSE trackers[j]]

\* progress_obj.set_error(error_msg), progress_obj being the task's own record
SetErrorOf(i, msg) == [trackers EXCEPT ![i].error = msg]

\* an exception e raised inside the try block of task i
Raise(i, e) ==
    IF Catches(e)
    THEN /\ trackers' = SetErrorOf(i, ExceptionMsg(urls[i], e))
         /\ Return(i, FALSE, ExceptionMsg(urls[i], e))
    ELSE /\ trackers' = trackers
         /\ pc' = [pc EXCEPT ![i] = "returned"]
         /\ retval' = [retval EXCEPT ![i] =
                         [raised |-> TRUE, url |-> urls[i], ok |-> FALSE,
                          msg |-> Msg("raised", urls[i], NoCode, e)]]

\* tasks a worker thread of the pool is executing
Busy == {i \in Tasks : pc[i] \in {"stream", "wait", "tail"}}

\* a worker thread is free to take the next work item
WorkerFree == Cardinality(Busy) < threads

\* executor.submit(download_video, url, ..., progress_trackers[i])
Submit ==
    /\ mainPc = "pool"
    /\ submitted < Len(urls)
    /\ submitted' = submitted + 1
    /\ UNCHANGED << urls, threads, pc, ops, proc, returncode, trackers, retval,
                    collected, results, stop_event, mainPc, rendPc, nread,
                    checked, launches, shown, unit >>

\* a worker takes task i off the queue and runs subprocess.Popen, which
\* either starts the process or raises OSError
Start(i, started) ==
    /\ pc[i] = "queued"
    /\ i <= submitted
    /\ \A j \in 1..(i - 1) : pc[j] # "queued"
    /\ WorkerFree
    /\ launches' = [launches EXCEPT ![i] = @ + 1]
    /\ IF started
       THEN /\ proc' = [proc EXCEPT ![i] = "live"]
            /\ pc' = [pc EXCEPT ![i] = "stream"]
            /\ UNCHANGED << trackers, retval >>
       ELSE /\ Raise(i, "OSError")
            /\ UNCHANGED proc
    /\ UNCHANGED << urls, threads, submitted, ops, returncode, collected,
                    results, stop_event, mainPc, rendPc, nread,
                    checked, shown, unit >>

\* the next line of process.stdout is read and matched
ReadLine(i, l) ==
    /\ pc[i] = "stream"
    /\ ops[i] = <<>>
    /\ nread < MaxLines
    /\ nread' = nread + 1
    /\ ops' = [ops EXCEPT ![i] = LineOps(Lines[l])]
    /\ UNCHANGED << urls, threads, submitted, pc, proc, returncode, trackers,
                    retval, collected, results, stop_event, mainPc, rendPc,
                    checked, launches, shown, unit >>

\* the next attribute write of the worker of task i (or float() raising)
Step(i) ==
    /\ ops[i] # <<>>
    /\ LET o == Head(ops[i]) IN
       IF o.f = "raise"
       THEN /\ Raise(i, o.s)
            /\ ops' = [ops EXCEPT ![i] = <<>>]
       ELSE /\ trackers' = [trackers EXCEPT ![i] = Write(trackers[i], o)]
            /\ ops' = [ops EXCEPT ![i] = Tail(ops[i])]
            /\ IF pc[i] = "tail" /\ Tail(ops[i]) = <<>>
               THEN Return(i, TRUE, CompletedMsg)
               ELSE UNCHANGED << pc, retval >>
    /\ UNCHANGED << urls, threads, submitted, proc, returncode, collected,
                    results, stop_event, mainPc, rendPc, nread,
                    checked, launches, shown, unit >>

\* the next line of process.stdout cannot be decoded: the iteration raises
\* UnicodeDecodeError
StreamRaise(i) ==
    /\ pc[i] = "stream"
    /\ ops[i] = <<>>
    /\ nread < MaxLines
    /\ nread' = nread + 1
    /\ Raise(i, "UnicodeDecodeError")
    /\ UNCHANGED << urls, threads, submitted, ops, proc, returncode, collected,
                    results, stop_event, mainPc, rendPc,
                    checked, launches, shown, unit >>

\* the process closes its output: the for loop ends, process.wait() is next
EndOfStream(i) ==
    /\ pc[i] = "stream"
    /\ ops[i] = <<>>
    /\ pc' = [pc EXCEPT ![i] = "wait"]
    /\ UNCHANGED << urls, threads, submitted, ops, proc, returncode, trackers,
                    retval, collected, results, stop_event, mainPc, rendPc, nread,
                    checked, launches, shown, unit >>

\* process.wait() returns: the process has exited with code c, and
\* process.returncode is tested
WaitReturn(i, c) ==
    /\ pc[i] = "wait"
    /\ proc[i] = "live"
    /\ proc' = [proc EXCEPT ![i] = "exited"]
    /\ returncode' = [returncode EXCEPT ![i] = c]
    /\ IF c = 0
       THEN IF ~trackers[i].completed
            THEN /\ ops' = [ops EXCEPT ![i] = set_completed]
                 /\ pc' = [pc EXCEPT ![i] = "tail"]
                 /\ UNCHANGED << trackers, retval >>
            ELSE /\ Return(i, TRUE, CompletedMsg)
                 /\ UNCHANGED << trackers, ops >>
       ELSE /\ trackers' = SetErrorOf(i, ExitMsg(urls[i], c))
            /\ Return(i, FALSE, ExitMsg(urls[i], c))
            /\ UNCHANGED ops
    /\ UNCHANGED << urls, threads, submitted, collected, results, stop_event,
                    mainPc, rendPc, nread,
                    checked, launches, shown, unit >>

\* a process whose download_video call has already returned through the
\* except clause (nothing waits for it) exits by itself with code c
OrphanExit(i, c) ==
    /\ proc[i] = "live"
    /\ pc[i] = "returned"
    /\ proc' = [proc EXCEPT ![i] = "exited"]
    /\ returncode' = [returncode EXCEPT ![i] = c]
    /\ UNCHANGED << urls, threads, submitted, pc, ops, trackers, retval,
                    collected, results, stop_event, mainPc, rendPc, nread,
                    checked, launches, shown, unit >>

\* -------------------------------------------------------------------- main
\* a tool check that reports "missing" and is ignored
ProceedsAnyway(ok) == TRUE

\* "if not check_yt_dlp_installed(): ... sys.exit(1)": main goes on only when
\* the check has returned True
Proceeds(ok) == ok

\* check_yt_dlp_installed() returns ok (True when "yt_dlp --version" ran with
\* exit code 0, False on CalledProcessError, TimeoutExpired, FileNotFoundError)
CheckTool(ok) ==
    /\ mainPc = "check"
    /\ checked' = Append(checked, ok)
    /\ mainPc' = IF Proceeds(ok) THEN "setup" ELSE "exit1"
    /\ UNCHANGED << urls, threads, submitted, pc, ops, proc, returncode, trackers,
                    retval, collected, results, stop_event, rendPc, nread,
                    launches, shown, unit >>

\* the URL list us is read, one DownloadProgress per URL is created and the
\* display_progress thread is started
Setup(us) ==
    /\ mainPc = "setup"
    /\ urls' = us
    /\ pc' = [i \in 1..Len(us) |-> "queued"]
    /\ ops' = [i \in 1..Len(us) |-> <<>>]
    /\ proc' = [i \in 1..Len(us) |-> "none"]
    /\ returncode' = [i \in 1..Len(us) |-> NoCode]
    /\ trackers' = [i \in 1..Len(us) |-> DownloadProgress(us[i], i, Len(us))]
    /\ retval' = [i \in 1..Len(us) |->
                    [raised |-> FALSE, url |-> "", ok |-> FALSE, msg |-> None]]
    /\ launches' = [i \in 1..Len(us) |-> 0]
    /\ rendPc' = "loop"
    /\ mainPc' = "pool"
    /\ UNCHANGED << threads, submitted, collected, results, stop_event, nread,
                    checked, shown, unit >>

\* a dict keyed by URL keeps one entry per distinct URL
KeysByUrl == {i \in Tasks : \A j \in Tasks : urls[j] = urls[i] => j <= i}

\* the keys of future_to_url: one future object per submit call
FutureKeys == Tasks

\* one iteration of "for future in as_completed(future_to_url)"
Collect(i) ==
    /\ mainPc = "pool"
    /\ submitted = Len(urls)
    /\ i \in FutureKeys
    /\ pc[i] = "returned"
    /\ i \notin collected
    /\ collected' = collected \cup {i}
    /\ IF retval[i].raised
       THEN LET msg == GeneratedMsg(urls[i], retval[i].msg.exc) IN
            /\ trackers' = [j \in Tasks |->
                              IF trackers[j].url = urls[i]
                              THEN [trackers[j] EXCEPT !.error = msg]
                              ELSE trackers[j]]
            /\ results' = Append(results, << urls[i], FALSE, msg >>)
       ELSE /\ results' = Append(results, << retval[i].url, retval[i].ok, retval[i].msg >>)
            /\ UNCHANGED trackers
    /\ UNCHANGED << urls, threads, submitted, pc, ops, proc, returncode, retval,
                    stop_event, mainPc, rendPc, nread,
                    checked, launches, shown, unit >>

\* as_completed is exhausted, the with block ends, stop_event.set()
SetStop ==
    /\ mainPc = "pool"
    /\ submitted = Len(urls)
    /\ collected = FutureKeys
    /\ stop_event' = TRUE
    /\ mainPc' = "join"
    /\ UNCHANGED << urls, threads, submitted, pc, ops, proc, returncode, trackers,
                    retval, collected, results, rendPc, nread,
                    checked, launches, shown, unit >>

\* progress_thread.join(timeout=1) returns (the thread has ended, or one
\* second has passed), the final summary line is printed and main returns
Summary ==
    /\ mainPc = "join"
    /\ mainPc' = "done"
    /\ UNCHANGED << urls, threads, submitted, pc, ops, proc, returncode, trackers,
                    retval, collected, results, stop_event, rendPc, nread,
                    checked, launches, shown, unit >>

\* the with block is left: ThreadPoolExecutor.__exit__ calls
\* shutdown(wait=True), which returns when the worker threads have run every
\* submitted work item to its end
PoolShutDown == \A i \in 1..submitted : pc[i] = "returned"

\* KeyboardInterrupt is raised in the main thread inside the try block (in the
\* submit loop, in as_completed, or in join); it leaves the with block first
Interrupt ==
    /\ mainPc \in {"pool", "join"}
    /\ mainPc' = "interrupted"
    /\ UNCHANGED << urls, threads, submitted, pc, ops, proc, returncode, trackers,
                    retval, collected, results, stop_event, rendPc, nread,
                    checked, launches, shown, unit >>

\* "except KeyboardInterrupt": the message is printed, stop_event.set(),
\* sys.exit(1)
InterruptExit ==
    /\ mainPc = "interrupted"
    /\ PoolShutDown
    /\ stop_event' = TRUE
    /\ mainPc' = "exit1"
    /\ UNCHANGED << urls, threads, submitted, pc, ops, proc, returncode, trackers,
                    retval, collected, results, rendPc, nread,
                    checked, launches, shown, unit >>

\* -------------------------------------------------------- display_progress
\* a loop condition that looks at the completed flag only
StillRunningUntilCompleted(t) == ~t.completed

\* "not tracker.completed and not tracker.error"
StillRunning(t) == ~t.completed /\ t.error = None

\* print_progress_final: the two counts and the status column it prints
print_progress_final ==
    [ drawn |-> TRUE,
      successful |-> Cardinality({i \in Tasks : trackers[i].completed}),
      failed |-> Cardinality({i \in Tasks : trackers[i].error # None}),
      status |-> [i \in Tasks |->
                    IF trackers[i].completed THEN "COMPLETED"
                    ELSE IF trackers[i].error # None THEN "ERROR"
                    ELSE "UNKNOWN"] ]

\* the while condition turns false (the stop event is set and no tracker is
\* still running), and print_progress_final draws the summary
FinalRender ==
    /\ rendPc = "loop"
    /\ stop_event
    /\ ~ \E i \in Tasks : StillRunning(trackers[i])
    /\ rendPc' = "done"
    /\ shown' = print_progress_final
    /\ UNCHANGED << urls, threads, submitted, pc, ops, proc, returncode, trackers,
                    retval, collected, results, stop_event, mainPc, nread,
                    checked, launches, unit >>

Next ==
    \/ \E ok \in BOOLEAN : CheckTool(ok)
    \/ \E us \in UrlLists : Setup(us)
    \/ Submit
    \/ \E i \in Tasks, started \in BOOLEAN : Start(i, started)
    \/ \E i \in Tasks, l \in 1..Len(Lines) : ReadLine(i, l)
    \/ \E i \in Tasks : Step(i)
    \/ \E i \in Tasks : StreamRaise(i)
    \/ \E i \in Tasks : EndOfStream(i)
    \/ \E i \in Tasks, c \in ExitCodes : WaitReturn(i, c)
    \/ \E i \in Tasks, c \in ExitCodes : OrphanExit(i, c)
    \/ \E i \in Tasks : Collect(i)
    \/ SetStop
    \/ Summary
    \/ Interrupt
    \/ InterruptExit
    \/ FinalRender

Spec == Init /\ [][Next]_vars

\* ------------------------------------------- one download_video call, alone
\* The second specification follows a single download_video call: the
\* command list it builds, what subprocess.Popen makes of it, and each output
\* line applied whole to the record, with the record before the line kept.
Platforms == {"posix", "nt"}
Qualities == {"best", "720p"}

\* the URLs of the call, as parts: "u1" and "u1&calc"
UnitUrls == { << "u1" >>, << "u1", "&", "calc" >> }

\* the list `command`, one element per argument (an argument is a sequence
\* of parts, like a token)
Command(url, quality, extract_audio) ==
    << T("sys.executable"), T("-m"), T("yt_dlp"), T("--newline"),
       T("-o"), T("output_template"), T("--no-warnings") >>
    \o (IF quality # "best"
        THEN << T("-S"), << "res:", quality, ",ext:mp4:m4a" >> >> ELSE <<>>)
    \o (IF extract_audio
        THEN << T("-x"), T("--audio-format"), T("mp3") >> ELSE <<>>)
    \o << T("--add-metadata"), T("--no-overwrites"), T("--continue"),
          T("--restrict-filenames"), url >>

\* the keyword arguments of the Popen call: shell=True, stderr=STDOUT
PopenShell == TRUE
PopenStderrToStdout == TRUE

\* the part of an argument in front of its first "&"
BeforeAmpersand(arg) ==
    LET at == {k \in 1..Len(arg) : arg[k] = "&"}
    IN  IF at = {} THEN arg
        ELSE SubSeq(arg, 1, (CHOOSE k \in at : \A q \in at : k <= q) - 1)

\* cmd.exe /c on the joined command line: "&" ends the first command
CmdExeWords(command) ==
    LET cut == {k \in 1..Len(command) : BeforeAmpersand(command[k]) # command[k]}
    IN  IF cut = {} THEN command
        ELSE LET k == CHOOSE c \in cut : \A q \in cut : c <= q
             IN  SubSeq(command, 1, k - 1)
                   \o (IF BeforeAmpersand(command[k]) = <<>> THEN <<>>
                       ELSE << BeforeAmpersand(command[k]) >>)

\* the argument vector the started program gets from Popen(command, shell=..):
\* without a shell the list itself; with a shell on POSIX the list is
\* ["/bin/sh", "-c", command[0], command[1], ...], so the shell runs
\* command[0] alone and the rest are the shell's own parameters; on Windows
\* the list is joined to one command line that cmd.exe reads
Popen(command, shell, platform) ==
    IF ~shell THEN command
    ELSE IF platform = "posix" THEN << command[1] >>
    ELSE CmdExeWords(command)

RECURSIVE ApplyOps(_, _)
\* the writes of one line done in order, up to the end or to a raise
ApplyOps(t, os) ==
    IF os = <<>> \/ Head(os).f = "raise" THEN t
    ELSE ApplyOps(Write(t, Head(os)), Tail(os))

\* download_video is called with its arguments
CallArgs(platform, url, quality, extract_audio) ==
    [ NoUnit EXCEPT !.phase = "called", !.platform = platform, !.url = url,
                    !.quality = quality, !.extract_audio = extract_audio,
                    !.rec = DownloadProgress("u1", 1, 1),
                    !.before = DownloadProgress("u1", 1, 1) ]

InitUnits ==
    /\ urls = <<>>
    /\ threads = 1
    /\ submitted = 0
    /\ pc = <<>>
    /\ ops = <<>>
    /\ proc = <<>>
    /\ returncode = <<>>
    /\ trackers = <<>>
    /\ retval = <<>>
    /\ collected = {}
    /\ results = <<>>
    /\ stop_event = FALSE
    /\ mainPc = "check"
    /\ rendPc = "none"
    /\ nread = 0
    /\ checked = <<>>
    /\ launches = <<>>
    /\ shown = NothingShown
    /\ unit \in {CallArgs(pf, u, q, x) :
                    pf \in Platforms, u \in UnitUrls, q \in Qualities, x \in BOOLEAN}

\* the command list is built and subprocess.Popen starts the process
Launch ==
    /\ unit.phase = "called"
    /\ LET command == Command(unit.url, unit.quality, unit.extract_audio) IN
       unit' = [unit EXCEPT !.phase = "stream",
                            !.command = command,
                            !.shell = PopenShell,
                            !.merged = PopenStderrToStdout,
                            !.received = Popen(command, PopenShell, unit.platform)]
    /\ UNCHANGED << urls, threads, submitted, pc, ops, proc, returncode, trackers,
                    retval, collected, results, stop_event, mainPc, rendPc, nread,
                    checked, launches, shown >>

\* one pass of the body of "for line in process.stdout" over line l
ApplyLine(l) ==
    /\ unit.phase = "stream"
    /\ unit.applied < MaxLines
    /\ unit' = [unit EXCEPT !.before = unit.rec,
                            !.line = l,
                            !.applied = @ + 1,
                            !.rec = ApplyOps(unit.rec, LineOps(Lines[l])),
                            !.phase = IF Raises(LineOps(Lines[l]))
                                      THEN "raised" ELSE "stream"]
    /\ UNCHANGED << urls, threads, submitted, pc, ops, proc, returncode, trackers,
                    retval, collected, results, stop_event, mainPc, rendPc, nread,
                    checked, launches, shown >>

NextUnits ==
    \/ Launch
    \/ \E l \in 1..Len(Lines) : ApplyLine(l)

SpecUnits == InitUnits /\ [][NextUnits]_vars

\* ----------------------------------------------------------------- fairness
\* The steps of each thread of the program, and of the external processes.
\* The main thread, the worker threads and the display thread are scheduled
\* by the interpreter, which lets every runnable thread run; a process that
\* closes its output and exits does so by itself.  No fairness is put on
\* Interrupt (the operator need not press Ctrl+C), on ReadLine (a process
\* need not print another line) nor on StreamRaise.
MainNext ==
    \/ \E ok \in BOOLEAN : CheckTool(ok)
    \/ \E us \in UrlLists : Setup(us)
    \/ Submit
    \/ \E i \in Tasks : Collect(i)
    \/ SetStop
    \/ Summary
    \/ InterruptExit

WorkerNext ==
    \/ \E i \in Tasks, started \in BOOLEAN : Start(i, started)
    \/ \E i \in Tasks : Step(i)

ProcessNext ==
    \/ \E i \in Tasks : EndOfStream(i)
    \/ \E i \in Tasks, c \in ExitCodes : WaitReturn(i, c)
    \/ \E i \in Tasks, c \in ExitCodes : OrphanExit(i, c)

FairSpec ==
    /\ Spec
    /\ WF_vars(MainNext)
    /\ WF_vars(WorkerNext)
    /\ WF_vars(ProcessNext)
    /\ WF_vars(FinalRender)

\* ------------------------------------------------------------ record state
\* the state of a record as display_progress and print_progress_final read it
Completed(t) == t.completed
Failed(t) == t.error # None

LiveProcesses == {i \in Tasks : proc[i] = "live"}

\* the exception, if any, that ended the download_video call of task i
ExceptionOf(i) == retval[i].msg.exc
ReadToTheEnd(i) == pc[i] = "returned" /\ ExceptionOf(i) = ""

\* C1: at most `threads` external processes are started and not yet exited.
\* Violated: the except clause returns without waiting for the process.
C1_LiveProcessesAtMostThreads == Cardinality(LiveProcesses) <= threads

\* C2: when main reaches its final summary, results holds exactly one entry
\* per submitted task: as many entries as URLs, and for each URL as many
\* entries as tasks with that URL.
EntriesFor(u) == Cardinality({k \in 1..Len(results) : results[k][1] = u})
TasksFor(u) == Cardinality({i \in Tasks : urls[i] = u})

C2_OneResultPerTask ==
    mainPc \in {"join", "done"} =>
        /\ Len(results) = Len(urls)
        /\ \A u \in URLS : EntriesFor(u) = TasksFor(u)

C2_Witness ==
    /\ mainPc = "done"
    /\ Len(urls) = 2 /\ urls[1] = urls[2]
    /\ \E k \in 1..Len(results) : results[k][2]
    /\ \E k \in 1..Len(results) : ~results[k][2]

\* C3: a task whose process exits with code 0 ends Completed (completed set,
\* no error) with success = true, whatever lines it emitted.  Stated for the
\* tasks whose process started and whose output could be decoded.
\* Violated: float() raises on a garbled percentage (see C10).
C3_ExitZeroIsCompleted ==
    \A i \in Tasks :
        ( /\ pc[i] = "returned"
          /\ proc[i] = "exited" /\ returncode[i] = 0
          /\ ExceptionOf(i) # "UnicodeDecodeError" )
        => /\ Completed(trackers[i]) /\ ~Failed(trackers[i])
           /\ retval[i].ok

\* C4: a task whose process exits with a nonzero code ends Failed and not
\* Completed, its error and its result message hold the exit code, and
\* success = false.  Stated for the tasks whose output was read to the end.
\* Violated: a 100% line sets completed before the exit code is known.
C4_NonzeroExitIsFailed ==
    \A i \in Tasks :
        (ReadToTheEnd(i) /\ returncode[i] # 0)
        => /\ Failed(trackers[i]) /\ ~Completed(trackers[i])
           /\ trackers[i].error.code = returncode[i]
           /\ retval[i].msg.code = returncode[i]
           /\ ~retval[i].ok

\* C5: the completed flag and the error value are never both set on the same
\* record.  Violated the same way as C4.
C5_CompletedAndErrorExclude ==
    \A i \in Tasks : ~(Completed(trackers[i]) /\ Failed(trackers[i]))

\* C6: a record whose completed flag is set has percentage 100 and
\* downloaded = size.  Stated for the states in which the worker is between
\* two lines (no write of the current line is pending).
\* Violated: a progress line after the 100% line overwrites percentage.
C6_CompletedIsFull ==
    \A i \in Tasks :
        (Completed(trackers[i]) /\ ops[i] = <<>>)
        => trackers[i].percentage = 1000
           /\ trackers[i].downloaded = trackers[i].size

\* C7: once a record has left Running, none of its fields is written again.
\* Stated from the moment set_completed has done all its writes, or the
\* error is set.  Violated: lines after the 100% line are applied, and the
\* error is set on a completed record.
Settled(t) ==
    \/ Failed(t)
    \/ Completed(t) /\ t.percentage = 1000 /\ t.downloaded = t.size

C7_FrozenAfterRunning ==
    [][\A i \in Tasks : Settled(trackers[i]) => trackers'[i] = trackers[i]]_vars

\* C8: the record and the result of a task change only in steps of that
\* task's own download_video call, and such a step changes nothing of any
\* other task; what main appends to results is the task's own return value.
OwnStep(i) == pc'[i] # pc[i] \/ ops'[i] # ops[i]
Untouched(j) ==
    /\ pc'[j] = pc[j] /\ ops'[j] = ops[j] /\ proc'[j] = proc[j]
    /\ returncode'[j] = returncode[j]
    /\ trackers'[j] = trackers[j] /\ retval'[j] = retval[j]

C8_TasksIndependent ==
    [][\A i \in Tasks :
          /\ (trackers'[i] # trackers[i] \/ retval'[i] # retval[i])
               => OwnStep(i) /\ \A j \in Tasks \ {i} : Untouched(j)
          /\ (i \in collected' \ collected)
               => results' = Append(results, << urls[i], retval[i].ok, retval[i].msg >>)
      ]_vars

C8_Witness ==
    \E i, j \in Tasks :
        /\ i # j /\ urls[i] = urls[j]
        /\ pc[i] = "returned" /\ ~retval[i].ok /\ Failed(trackers[i])
        /\ pc[j] = "returned" /\ retval[j].ok /\ ~Failed(trackers[j])
        /\ collected = Tasks

C10_NoLineFailsATask ==
    \A i \in Tasks :
        (pc[i] = "returned" /\ ExceptionOf(i) \notin {"OSError", "UnicodeDecodeError"})
        => /\ ReadToTheEnd(i)
           /\ retval[i].ok <=> (returncode[i] = 0)

\* ------------------------------------------------------- interrupt and exit
\* a worker thread is inside download_video for some task
InFlight == \E i \in Tasks : pc[i] \in {"stream", "wait", "tail"}

\* C11: when the operator interrupts the run while downloads are in flight,
\* main can go on to its handler (stop the renderer, report, exit with status
\* 1) at once: that step does not wait for any task's process to finish.
C11_InterruptExitDoesNotWait ==
    (mainPc = "interrupted" /\ InFlight) => ENABLED InterruptExit

\* C12: once the interrupt is delivered, a task that has not started its
\* process never starts one.
C12_NoDispatchAfterInterrupt ==
    [][mainPc = "interrupted" =>
         \A i \in Tasks : proc[i] = "none" => proc'[i] = "none"]_vars

\* C13: main prints its summary and returns only after all results are
\* collected, the stop signal is set and the renderer has finished its final
\* render.
C13_SummaryAfterFinalRender ==
    mainPc = "done" => (collected = Tasks /\ stop_event /\ rendPc = "done")

\* C14: the tool check runs exactly once, before anything else; when it fails
\* the run ends with status 1 and no record exists, the renderer thread is not
\* started, nothing is submitted and no process is launched.
C14_CheckFirstAndOnce ==
    /\ Len(checked) = (IF mainPc = "check" THEN 0 ELSE 1)
    /\ checked = << FALSE >> =>
          /\ mainPc = "exit1"
          /\ urls = <<>> /\ trackers = <<>> /\ launches = <<>> /\ proc = <<>>
          /\ rendPc = "none"
          /\ submitted = 0
    /\ (rendPc # "none" \/ trackers # <<>> \/ \E i \in Tasks : launches[i] > 0)
          => checked = << TRUE >>

C14_Witness == checked = << FALSE >> /\ mainPc = "exit1"

C19_ReturnedMeansExited ==
    \A i \in Tasks : pc[i] = "returned" => proc[i] # "live"

\* ------------------------------------------------------------ final summary
\* C20: on a run that ended without an interrupt, the final summary of the
\* dashboard agrees with the results: Completed counts the successes, Failed
\* the failures, they add up to the total, and a failed task shows ERROR.
C20_FinalSummaryAgrees ==
    (mainPc = "done" /\ shown.drawn) =>
        /\ shown.successful = Cardinality({k \in 1..Len(results) : results[k][2]})
        /\ shown.failed = Cardinality({k \in 1..Len(results) : ~results[k][2]})
        /\ shown.successful + shown.failed = Len(urls)
        /\ \A i \in Tasks : ~retval[i].ok => shown.status[i] = "ERROR"

\* ----------------------------------------------------------------- launch
\* C15: the process is started from the argument vector itself, with no shell
\* in between and with stderr merged into stdout, so the started program
\* receives the whole list that download_video built, the URL last.
C15_ArgvReachesProgram ==
    unit.phase = "stream" =>
        /\ ~unit.shell
        /\ unit.merged
        /\ unit.received = unit.command
        /\ unit.command[Len(unit.command)] = unit.url

\* ------------------------------------------------------------ one line
\* the position of the token of field f in a line (0: the line has none)
TokenOf(line, f) ==
    CASE f = "percentage" -> percentage_pattern(line)
      [] f = "size" -> size_pattern(line)
      [] f = "speed" -> speed_pattern(line)
      [] f = "eta" -> eta_pattern(line)
      [] f = "downloaded" -> downloaded_pattern(line)
      [] f = "filename" -> filename_pattern(line)

Fields == {"percentage", "size", "speed", "eta", "downloaded", "filename"}

Field(t, f) ==
    CASE f = "percentage" -> t.percentage
      [] f = "size" -> t.size
      [] f = "speed" -> t.speed
      [] f = "eta" -> t.eta
      [] f = "downloaded" -> t.downloaded
      [] f = "filename" -> t.filename

\* C16: a line that is applied (one that neither completes the download nor
\* makes float() raise) leaves every field whose token it lacks as it was and
\* writes size, speed, eta and filename from their tokens whatever else the
\* line holds; the 45.2% line sets percentage, size, speed and eta and leaves
\* downloaded and filename as they were.
C16_FieldWrittenIffTokenPresent ==
    (unit.line # 0 /\ unit.phase = "stream"
       /\ complete_pattern(Lines[unit.line]) = 0) =>
        LET line == Lines[unit.line] IN
        /\ \A f \in Fields :
              TokenOf(line, f) = 0 => Field(unit.rec, f) = Field(unit.before, f)
        /\ \A f \in {"size", "speed", "eta", "filename"} :
              TokenOf(line, f) # 0 => Field(unit.rec, f) = Group(line, TokenOf(line, f))
        /\ line = LineProgress =>
              /\ unit.rec.percentage = 452
              /\ unit.rec.size = "120.00MiB"
              /\ unit.rec.speed = "3.50MiB/s"
              /\ unit.rec.eta = "00:30"
              /\ unit.rec.downloaded = unit.before.downloaded
              /\ unit.rec.filename = unit.before.filename

\* -------------------------------------------------------------- termination
\* every record has left Running, main has collected every result, set the
\* stop event, printed its summary and returned, and display_progress has
\* left its loop
Finished ==
    /\ \A i \in Tasks : ~StillRunning(trackers[i])
    /\ collected = Tasks
    /\ stop_event
    /\ mainPc = "done"
    /\ rendPc = "done"

\* C18: with every thread scheduled fairly and every started process closing
\* its output and exiting, a run of one or more tasks in which the tool is
\* found and no interrupt arrives ends: all records leave Running, all results
\* are collected, the stop event is set, the summary is printed and the
\* display loop stops.
C18_RunEnds ==
    [](mainPc # "interrupted" /\ checked # << FALSE >>) => <>Finished

\* a run of two tasks on one worker, one of them failed, has ended
C18_Witness ==
    /\ Finished
    /\ Len(urls) = 2 /\ threads = 1
    /\ \E i \in Tasks : Failed(trackers[i])
    /\ \E i \in Tasks : ~Failed(trackers[i])

====
